---- MODULE Spec2Model ----
(***************************************************************************)
(* A model of the two traffic generators of go-websocket-benchmark:        *)
(*   - BenchEcho (src/mwsbench/benchecho/benchecho.go), the closed-loop    *)
(*     generator: workers check a connection out of a channel, write one   *)
(*     frame, read the response, verify it and return the connection;      *)
(*   - BenchRate (src/unnamed/part_000), the open-loop generator: one      *)
(*     worker per team of connections writes a batch per tick under a      *)
(*     backpressure test, while the transport's callback counts responses. *)
(* The two sessions share the field names of the source (Concurrency,      *)
(* Payload, chConns, limitFn, PsCounter), so they share variables here;    *)
(* SpecEcho and SpecRate are the two programs, SpecRun is a session of     *)
(* either kind, and FairSpecRate is an open-loop run against a subject     *)
(* that never responds, under fair scheduling.                             *)
(***************************************************************************)
EXTENDS Integers, Sequences, FiniteSets, TLC

\* ------------------------------------------------------------------ bounds
NumConns == 2       \* len(ConnsMap): the connections gathered before the run
EchoTotal == 2      \* Total: the measured calls the caller configures
EchoPayload == 2    \* the closed-loop Payload the caller configures, in bytes
EchoWarmup == 1     \* the WarmupTimes the caller configures
NumCPU == 1         \* runtime.NumCPU()
RatePayload == 4000 \* the open-loop Payload the caller configures, in bytes
BigPayload == 9000  \* an open-loop Payload whose frame exceeds the batch ceiling
MaxSendRate == 2    \* the largest open-loop SendRate a caller configures
MaxWrites == 6      \* open-loop: writes to one connection that are followed
MaxRecv == 1        \* open-loop: responses of one connection that are followed
MaxFaults == 1      \* faults the environment injects in one run

Conns == 1..NumConns
\* Worker slots: init leaves Concurrency <= len(ConnsMap), so the last slot is
\* one that a run never starts.
Workers == 0..NumConns
NoConn == 0

VARIABLES
    \* shared by both sessions
    run,          \* position of Run
    session,      \* the receiver of Run: "BenchEcho" or "BenchRate"
    subject,      \* the server under test: "echo", or "silent" (never answers)
    faults,       \* faults the environment has injected so far
    pidOk,        \* whether config.GetFrameworkPid succeeds (the environment)
    Concurrency, Payload,
    chConns,      \* the channel's buffer
    chConnsRef,   \* the field bm.chConns / br.chConns: "nil" or "chan"
    limitFn,      \* "noop" or "limiter"
    tokens,       \* tokens of the rate.Limiter
    PsCounter,    \* "nil", "new", "started", "stopped"
    sampler,      \* the goroutine of Run that starts the sampler
    wpc,          \* position of each worker goroutine
    \* BenchEcho
    WarmupTimes, Total, Limit,
    index, Success, Failed,   \* perf.Calculator
    measured,     \* doOnce calls begun in the measurement phase
    conn,         \* the connection each worker's doOnce holds
    call,         \* the locals of each worker's doOnce
    wire,         \* per connection: the frame written, not yet handled
    resp,         \* per connection: the response message, not yet read
    \* BenchRate
    SendRate, SendLimit, batch, tickRate, batchLen,
    sendTimes, sendBytes, recvTimes, recvBytes,
    sendCnt, recvCnt,         \* Conn.sendCnt, Conn.recvCnt
    connTeams, done,
    pos,          \* index of each worker's range loop in doOnce
    inflight      \* per connection: messages the subject has still to answer

sharedVars == <<run, session, subject, faults, pidOk, Concurrency, Payload, chConns, chConnsRef,
                limitFn, tokens, PsCounter, sampler, wpc>>
echoVars == <<WarmupTimes, Total, Limit, index, Success, Failed, measured,
              conn, call, wire, resp>>
rateVars == <<SendRate, SendLimit, batch, tickRate, batchLen, sendTimes,
              sendBytes, recvTimes, recvBytes, sendCnt, recvCnt, connTeams,
              done, pos, inflight>>
vars == <<sharedVars, echoVars, rateVars>>

\* len(bm.pbuffers), len(bm.wbuffers)
NumBuffers == 1024

\* The variants getBuffers is followed for: the first and the last.
BufferIdx == {0, NumBuffers - 1}

\* atomic.AddInt64(&x, d): the new value of x.
AddInt64Down(x, d) == x - d
AddInt64(x, d) == x + d

Min(a, b) == IF a < b THEN a ELSE b

\* ------------------------------------------------------------ frame codec
\* protocol.EncodeClientMessage: a header (type, length) followed by the payload.
EncodeClientMessage(mt, payload) == <<mt, Len(payload)>> \o payload

\* The transport's decode of one frame into a message.
DecodeMessage(frame) == [mt |-> frame[1], data |-> SubSeq(frame, 3, 2 + frame[2])]

NoMsg == [mt |-> "none", data |-> <<>>]

\* ------------------------------------------------- BenchEcho: init's parts
\* rand.Read(buffer) for variant i: a fixed sample of Payload bytes.
pbuffers(i, payload) == [k \in 1..payload |-> (i + k) % 2]

wbuffers(i, payload) == EncodeClientMessage("binary", pbuffers(i, payload))

InitWarmupTimes(w, n) ==
    IF w <= 0 THEN (IF n * 5 > 2000000 THEN 2000000 ELSE n * 5) ELSE w

EchoInitConcurrencyNoClamp(c, n) == IF c <= 0 THEN NumCPU * 1000 ELSE c
EchoInitConcurrency(c, n) ==
    LET c1 == IF c <= 0 THEN NumCPU * 1000 ELSE c
    IN  IF c1 > n THEN n ELSE c1

RECURSIVE LoadConns(_, _)
\* for c := range bm.ConnsMap { bm.chConns <- c }
LoadConns(ch, n) ==
    IF n = 0 THEN ch ELSE Append(LoadConns(ch, n - 1), n)

StartWorkers(c) == [w \in Workers |-> IF w < c THEN "next" ELSE "off"]

\* The locals of a doOnce call: the variant getBuffers chose, and the error
\* returned ("none" until it returns, "nil" for success).
NoCall == [idx |-> 0, err |-> "none"]

\* The state after New(): the caller has set the exported fields.
EchoNew ==
    /\ run = "new"
    /\ session = "BenchEcho"
    /\ subject = "echo"
    /\ faults = 0
    /\ pidOk \in BOOLEAN
    /\ Concurrency \in 0..NumConns
    /\ Payload = EchoPayload
    /\ chConns = <<>> /\ chConnsRef = "nil"
    /\ limitFn = "noop" /\ tokens = 0
    /\ PsCounter = "nil" /\ sampler = "none"
    /\ wpc = [w \in Workers |-> "off"]
    /\ WarmupTimes = EchoWarmup
    /\ Total = EchoTotal
    /\ Limit \in {0, 1}
    /\ index = 0 /\ Success = 0 /\ Failed = 0 /\ measured = 0
    /\ conn = [w \in Workers |-> NoConn]
    /\ call = [w \in Workers |-> NoCall]
    /\ wire = [c \in Conns |-> <<>>]
    /\ resp = [c \in Conns |-> NoMsg]
    /\ SendRate = 0 /\ SendLimit = 0 /\ batch = 0 /\ tickRate = 0 /\ batchLen = 0
    /\ sendTimes = 0 /\ sendBytes = 0 /\ recvTimes = 0 /\ recvBytes = 0
    /\ sendCnt = [c \in Conns |-> 0] /\ recvCnt = [c \in Conns |-> 0]
    /\ connTeams = <<>> /\ done = FALSE
    /\ pos = [w \in Workers |-> 0]
    /\ inflight = [c \in Conns |-> 0]

\* logging.Fatalf(...): the message is logged and the process ends; Run goes
\* no further.
Fatalf == "fatal"

\* serverPid, err := config.GetFrameworkPid(...); if err != nil { logging.Fatalf }
PidErrIgnored(ok) == FALSE
PidErr(ok) == ~ok

\* bm.init(), then the start of Calculator.Warmup.
EchoInit ==
    /\ run = "new"
    /\ WarmupTimes' = InitWarmupTimes(WarmupTimes, NumConns)
    /\ Concurrency' = EchoInitConcurrency(Concurrency, NumConns)
    /\ limitFn' = IF Limit > 0 THEN "limiter" ELSE "noop"
    /\ UNCHANGED tokens
    /\ chConns' = LoadConns(<<>>, NumConns)
    /\ chConnsRef' = "chan"
    /\ IF ~PidErr(pidOk)
         THEN /\ PsCounter' = "new"
              /\ run' = "warmup"
              /\ wpc' = StartWorkers(Concurrency')
         ELSE /\ run' = Fatalf
              /\ UNCHANGED <<PsCounter, wpc>>
    /\ index' = 0
    /\ UNCHANGED <<session, subject, faults, pidOk, Payload, sampler, Total, Limit, Success,
                   Failed, measured, conn, call, wire, resp, rateVars>>

\* --------------------------------------------- perf.Calculator's workers
\* The number of calls of the phase Run is in.
Times == IF run = "warmup" THEN WarmupTimes ELSE Total

\* One worker of Calculator.Warmup / Calculator.Benchmark takes the next call
\* (an atomic increment of the shared index) or leaves when all are taken.
CalcTake(w) ==
    /\ run \in {"warmup", "bench"}
    /\ wpc[w] = "next"
    /\ index' = index + 1
    /\ IF index + 1 > Times
         THEN wpc' = [wpc EXCEPT ![w] = "exit"] /\ UNCHANGED measured
         ELSE /\ wpc' = [wpc EXCEPT ![w] = "checkout"]
              /\ measured' = IF run = "bench" THEN measured + 1 ELSE measured
    /\ UNCHANGED <<run, session, subject, faults, pidOk, Concurrency, Payload, chConns, chConnsRef,
                   limitFn, tokens, PsCounter, sampler, WarmupTimes, Total, Limit,
                   Success, Failed, conn, call, wire, resp, rateVars>>

\* The worker counts the result doOnce returned; Warmup discards it.
CalcRecord(w) ==
    /\ wpc[w] = "record"
    /\ Success' = IF run = "bench" /\ call[w].err = "nil" THEN Success + 1 ELSE Success
    /\ Failed' = IF run = "bench" /\ call[w].err # "nil" THEN Failed + 1 ELSE Failed
    /\ call' = [call EXCEPT ![w] = NoCall]
    /\ wpc' = [wpc EXCEPT ![w] = "next"]
    /\ UNCHANGED <<run, session, subject, faults, pidOk, Concurrency, Payload, chConns, chConnsRef,
                   limitFn, tokens, PsCounter, sampler, WarmupTimes, Total, Limit,
                   index, measured, conn, wire, resp, rateVars>>

\* ----------------------------------------------------- BenchEcho.doOnce
\* conn := <-bm.chConns
CheckoutKeep(ch) == ch
Checkout(ch) == Tail(ch)

\* defer func() { bm.chConns <- conn }()
ReturnDrop(ch, c) == ch
Return(ch, c) == Append(ch, c)

EchoCheckout(w) ==
    /\ wpc[w] = "checkout"
    /\ Len(chConns) > 0
    /\ conn' = [conn EXCEPT ![w] = Head(chConns)]
    /\ chConns' = Checkout(chConns)
    /\ wpc' = [wpc EXCEPT ![w] = IF limitFn = "limiter" THEN "limit" ELSE "write"]
    /\ UNCHANGED <<run, session, subject, faults, pidOk, Concurrency, Payload, chConnsRef, limitFn,
                   tokens, PsCounter, sampler, WarmupTimes, Total, Limit, index,
                   Success, Failed, measured, call, wire, resp, rateVars>>

\* bm.limitFn(): limiter.Wait(context.Background()) waits for one token, which
\* the limiter (burst Limit >= 1, one token a second) always comes to grant:
\* a delay of the worker that holds the connection.
EchoLimit(w) ==
    /\ wpc[w] = "limit"
    /\ wpc' = [wpc EXCEPT ![w] = "write"]
    /\ UNCHANGED <<run, session, subject, faults, pidOk, Concurrency, Payload, chConns, chConnsRef,
                   limitFn, tokens, PsCounter, sampler, echoVars, rateVars>>

\* The outcomes the transport can give a write or a read: an error is a fault.
CanFault == faults < MaxFaults
WriteOutcomes == IF CanFault THEN {"ok", "err"} ELSE {"ok"}
ReadOutcomes == IF CanFault THEN {"ok", "nextReaderErr", "readErr"} ELSE {"ok"}

\* getBuffers and conn.UnderlyingConn().Write(wbuffer); on an error doOnce
\* returns it, and the deferred send gives the connection back.
EchoWrite(w) ==
    /\ wpc[w] = "write"
    /\ \E idx \in BufferIdx, out \in WriteOutcomes :
         /\ IF out = "ok"
              THEN /\ wire' = [wire EXCEPT ![conn[w]] = wbuffers(idx, Payload)]
                   /\ call' = [call EXCEPT ![w].idx = idx]
                   /\ wpc' = [wpc EXCEPT ![w] = "read"]
                   /\ UNCHANGED <<chConns, conn>>
              ELSE /\ call' = [call EXCEPT ![w].err = "write error"]
                   /\ chConns' = Return(chConns, conn[w])
                   /\ conn' = [conn EXCEPT ![w] = NoConn]
                   /\ wpc' = [wpc EXCEPT ![w] = "record"]
                   /\ UNCHANGED wire
         /\ faults' = IF out = "ok" THEN faults ELSE faults + 1
    /\ UNCHANGED <<run, session, subject, pidOk, Concurrency, Payload, chConnsRef, limitFn,
                   tokens, PsCounter, sampler, WarmupTimes, Total, Limit, index,
                   Success, Failed, measured, resp, rateVars>>

\* The read loop of doOnce: the buffer grows by a copy of the pooled buffer
\* whenever it is full, each Read copies what fits, io.EOF ends the loop.
RECURSIVE ReadLoop(_, _, _, _)
ReadLoop(readBuffer, nread, data, rbuffer) ==
    LET buf == IF nread = Len(readBuffer) THEN readBuffer \o rbuffer ELSE readBuffer
        n == Min(Len(buf) - nread, Len(data))
        filled == [k \in 1..Len(buf) |->
                     IF k > nread /\ k <= nread + n THEN data[k - nread] ELSE buf[k]]
    IN  IF Len(data) = 0
          THEN [buf |-> buf, nread |-> nread]
          ELSE ReadLoop(filled, nread + n, SubSeq(data, n + 1, Len(data)), rbuffer)

DoOnceReadWholeBuffer(pbuffer, out, msg, payload) ==
    LET rbuffer == [k \in 1..payload |-> 0]
        r == ReadLoop(rbuffer, 0, msg.data, rbuffer)
    IN  IF out # "ok" THEN "read error"
        ELSE IF msg.mt # "binary" THEN "invalid message type"
        ELSE IF pbuffer # r.buf THEN "respons data is not equal to origin"
        ELSE "nil"

DoOnceReadLenOnly(pbuffer, out, msg, payload) ==
    LET rbuffer == [k \in 1..payload |-> 0]
        r == ReadLoop(rbuffer, 0, msg.data, rbuffer)
    IN  IF out # "ok" THEN "read error"
        ELSE IF msg.mt # "binary" THEN "invalid message type"
        ELSE IF Len(pbuffer) # r.nread THEN "respons data is not equal to origin"
        ELSE "nil"

\* What doOnce returns once the frame is written, from conn.NextReader() on:
\* out is what the transport does ("ok", or the call that fails).
DoOnceRead(pbuffer, out, msg, payload) ==
    LET rbuffer == [k \in 1..payload |-> 0]
        r == ReadLoop(rbuffer, 0, msg.data, rbuffer)
    IN  IF out = "nextReaderErr" THEN "read error"
        ELSE IF out = "readErr" THEN "read error"
        ELSE IF msg.mt # "binary" THEN "invalid message type"
        ELSE IF pbuffer # SubSeq(r.buf, 1, r.nread)
               THEN "respons data is not equal to origin"
        ELSE "nil"

EchoRead(w) ==
    /\ wpc[w] = "read"
    /\ resp[conn[w]] # NoMsg
    /\ \E out \in ReadOutcomes :
         /\ call' = [call EXCEPT
                      ![w].idx = 0,
                      ![w].err = DoOnceRead(pbuffers(call[w].idx, Payload), out,
                                            resp[conn[w]], Payload)]
         /\ faults' = IF out = "ok" THEN faults ELSE faults + 1
    /\ resp' = [resp EXCEPT ![conn[w]] = NoMsg]
    /\ chConns' = Return(chConns, conn[w])
    /\ conn' = [conn EXCEPT ![w] = NoConn]
    /\ wpc' = [wpc EXCEPT ![w] = "record"]
    /\ UNCHANGED <<run, session, subject, pidOk, Concurrency, Payload, chConnsRef, limitFn,
                   tokens, PsCounter, sampler, WarmupTimes, Total, Limit, index,
                   Success, Failed, measured, wire, rateVars>>

\* ------------------------------------------------------ the subject
Flip(data, k) == [i \in 1..Len(data) |-> IF i = k THEN 1 - data[i] ELSE data[i]]

\* What the server under test answers to message m: the servers of
\* frameworks/ write back the type and the bytes they got.
OnMessagePtr(m) == m

\* A fault of the subject: the type, one byte or the length is changed.
Garbled(m) ==
    {[mt |-> "text", data |-> m.data],
     [mt |-> m.mt, data |-> SubSeq(m.data, 1, Len(m.data) - 1)],
     [mt |-> m.mt, data |-> Append(m.data, 0)]}
    \cup {[mt |-> m.mt, data |-> Flip(m.data, k)] : k \in 1..Len(m.data)}

SubjectRespond(c) ==
    /\ wire[c] # <<>>
    /\ LET m == OnMessagePtr(DecodeMessage(wire[c]))
       IN  \/ resp' = [resp EXCEPT ![c] = m] /\ UNCHANGED faults
           \/ /\ CanFault
              /\ faults' = faults + 1
              /\ \E g \in Garbled(m) : resp' = [resp EXCEPT ![c] = g]
    /\ wire' = [wire EXCEPT ![c] = <<>>]
    /\ UNCHANGED <<run, session, subject, pidOk, Concurrency, Payload, chConns, chConnsRef,
                   limitFn, tokens, PsCounter, sampler, wpc, WarmupTimes, Total, Limit, index, Success, Failed,
                   measured, conn, call, rateVars>>

\* Time passes: the limiter gains a token, up to its burst.
Refill(burst) ==
    /\ limitFn = "limiter"
    /\ tokens < burst
    /\ tokens' = tokens + 1
    /\ UNCHANGED <<run, session, subject, faults, pidOk, Concurrency, Payload, chConns, chConnsRef,
                   limitFn, PsCounter, sampler, wpc, echoVars, rateVars>>

\* ------------------------------------------------------ the sampler task
\* go func() { PsCounter.Start(...); time.Sleep(PsInterval); close(chCounterStart) }()
SamplerStart ==
    /\ sampler = "start"
    /\ PsCounter' = "started"
    /\ sampler' = "sleep"
    /\ UNCHANGED <<run, session, subject, faults, pidOk, Concurrency, Payload, chConns, chConnsRef,
                   limitFn, tokens, wpc, echoVars, rateVars>>

SamplerClose ==
    /\ sampler = "sleep"
    /\ sampler' = "closed"
    /\ UNCHANGED <<run, session, subject, faults, pidOk, Concurrency, Payload, chConns, chConnsRef,
                   limitFn, tokens, PsCounter, wpc, echoVars, rateVars>>

\* <-chCounterStart: the receive returns once the channel has been closed.
CounterStartAny == TRUE
CounterStartClosed == sampler = "closed"

\* -------------------------------------------------------- BenchEcho.Run
AllExited == \A w \in Workers : w < Concurrency => wpc[w] = "exit"

\* Warmup has returned: Run spawns the sampler task and starts Benchmark.
EchoStartBench ==
    /\ run = "warmup"
    /\ AllExited
    /\ sampler' = "start"
    /\ run' = "bench"
    /\ index' = 0 /\ Success' = 0 /\ Failed' = 0
    /\ wpc' = StartWorkers(Concurrency)
    /\ UNCHANGED <<session, subject, faults, pidOk, Concurrency, Payload, chConns, chConnsRef,
                   limitFn, tokens, PsCounter, WarmupTimes, Total, Limit, measured,
                   conn, call, wire, resp, rateVars>>

\* Benchmark has returned: Run blocks on <-chCounterStart.
EchoBenchDone ==
    /\ run = "bench"
    /\ AllExited
    /\ run' = "wait"
    /\ UNCHANGED <<session, subject, faults, pidOk, Concurrency, Payload, chConns, chConnsRef,
                   limitFn, tokens, PsCounter, sampler, wpc, echoVars, rateVars>>

\* <-chCounterStart; bm.PsCounter.Stop(); then the deferred bm.clean().
EchoFinish ==
    /\ run = "wait"
    /\ CounterStartClosed
    /\ PsCounter' = "stopped"
    /\ chConnsRef' = "nil"
    /\ limitFn' = "noop"
    /\ run' = "returned"
    /\ UNCHANGED <<session, subject, faults, pidOk, Concurrency, Payload, chConns, tokens, sampler,
                   wpc, echoVars, rateVars>>

EchoNext ==
    \/ EchoInit
    \/ \E w \in Workers : CalcTake(w)
    \/ \E w \in Workers : EchoCheckout(w)
    \/ \E w \in Workers : EchoLimit(w)
    \/ \E w \in Workers : EchoWrite(w)
    \/ \E w \in Workers : EchoRead(w)
    \/ \E w \in Workers : CalcRecord(w)
    \/ \E c \in Conns : SubjectRespond(c)
    \/ SamplerStart
    \/ SamplerClose
    \/ EchoStartBench
    \/ EchoBenchDone
    \/ EchoFinish

SpecEcho == EchoNew /\ [][EchoNext]_vars

\* ================================================================ BenchRate
\* Len(EncodeClientMessage(mt, payload)) for a payload of n bytes.
FrameLen(n) == 2 + n

\* protocol.BatchBuffers(message, rate, maxSize): as many frames as the rate
\* asks for and the byte ceiling allows; the tick rate makes up the rest of
\* the rate. When not even one frame fits under the ceiling there is no batch
\* to build: the buffer is empty and the tick rate 0.
BatchBuffers(msgLen, rate, maxSize) ==
    LET fit == maxSize \div msgLen
        b == IF rate < fit THEN rate ELSE fit
    IN  IF b < 1
          THEN [len |-> 0, batch |-> 0, tickRate |-> 0]
          ELSE [len |-> b * msgLen, batch |-> b, tickRate |-> rate \div b]

\* if br.tickRate <= 0 || len(br.batchBuffer) == 0 { logging.Fatalf(...) }
WrongBatchNever(tr, len) == FALSE
WrongBatch(tr, len) == tr <= 0 \/ len = 0

RateInitConcurrency(c, n) ==
    LET c1 == IF c <= 0 THEN 50000 ELSE c
    IN  IF c1 > n THEN n ELSE c1

\* for i < SendRate { for c := range ConnsMap { br.chConns <- c } }
RECURSIVE RateLoadConns(_, _, _)
RateLoadConns(ch, times, n) ==
    IF times = 0 THEN ch ELSE RateLoadConns(LoadConns(ch, n), times - 1, n)

\* The orders in which a range over ConnsMap can yield the connections.
ConnOrders == {o \in [1..NumConns -> Conns] : \A i, j \in 1..NumConns : i # j => o[i] # o[j]}

BuildTeamsShared(order, cnt, k) == [i \in 0..(k - 1) |-> order]

\* connTeams as Run builds it: the cnt-th connection of the range (cnt from 1)
\* is appended to team cnt % len(connTeams).
RECURSIVE BuildTeams(_, _, _)
BuildTeams(order, cnt, k) ==
    IF cnt = 0 THEN [i \in 0..(k - 1) |-> <<>>]
    ELSE LET t == BuildTeams(order, cnt - 1, k)
         IN  [t EXCEPT ![cnt % k] = Append(t[cnt % k], order[cnt])]

RateNew ==
    /\ run = "new"
    /\ session = "BenchRate"
    /\ subject \in {"echo", "silent"}
    /\ faults = 0
    /\ pidOk \in BOOLEAN
    /\ Concurrency \in 0..NumConns
    /\ Payload \in {RatePayload, BigPayload}
    /\ chConns = <<>> /\ chConnsRef = "nil"
    /\ limitFn = "noop" /\ tokens = 0
    /\ PsCounter = "nil" /\ sampler = "none"
    /\ wpc = [w \in Workers |-> "off"]
    /\ WarmupTimes = 0 /\ Total = 0 /\ Limit = 0
    /\ index = 0 /\ Success = 0 /\ Failed = 0 /\ measured = 0
    /\ conn = [w \in Workers |-> NoConn]
    /\ call = [w \in Workers |-> NoCall]
    /\ wire = [c \in Conns |-> <<>>]
    /\ resp = [c \in Conns |-> NoMsg]
    /\ SendRate \in 0..MaxSendRate
    /\ SendLimit \in {0, 1}
    /\ batch = 0 /\ tickRate = 0 /\ batchLen = 0
    /\ sendTimes = 0 /\ sendBytes = 0 /\ recvTimes = 0 /\ recvBytes = 0
    /\ sendCnt = [c \in Conns |-> 0] /\ recvCnt = [c \in Conns |-> 0]
    /\ connTeams = <<>> /\ done = FALSE
    /\ pos = [w \in Workers |-> 0]
    /\ inflight = [c \in Conns |-> 0]

\* br.init()
RateInit ==
    /\ run = "new"
    /\ Concurrency' = RateInitConcurrency(Concurrency, NumConns)
    /\ SendRate' = IF SendRate <= 0 THEN 1 ELSE SendRate
    /\ LET bb == BatchBuffers(FrameLen(Payload), SendRate', 1024 * 8)
       IN  /\ batchLen' = bb.len
           /\ batch' = bb.batch
           /\ tickRate' = bb.tickRate
           /\ IF WrongBatch(bb.tickRate, bb.len)
                THEN /\ run' = Fatalf
                     /\ UNCHANGED <<limitFn, tokens, chConns, chConnsRef, PsCounter>>
                ELSE /\ limitFn' = IF SendLimit > 0 THEN "limiter" ELSE "noop"
                     /\ tokens' = IF SendLimit > 0 THEN SendLimit ELSE 0
                     /\ chConns' = RateLoadConns(<<>>, SendRate', NumConns)
                     /\ chConnsRef' = "chan"
                     /\ IF ~PidErr(pidOk)
                          THEN run' = "init" /\ PsCounter' = "new"
                          ELSE run' = Fatalf /\ UNCHANGED PsCounter
    /\ UNCHANGED <<session, subject, faults, pidOk, Payload, sampler, wpc, echoVars, SendLimit,
                   sendTimes, sendBytes, recvTimes, recvBytes, sendCnt, recvCnt,
                   connTeams, done, pos, inflight>>

\* Run after init: the sampler task and the duration timer are started, the
\* teams are built and one worker per team is started; Run then waits in
\* wg.Wait().
RateStart ==
    /\ run = "init"
    /\ sampler' = "start"
    /\ \E order \in ConnOrders :
         connTeams' = BuildTeams(order, NumConns, Concurrency)
    /\ sendCnt' = [c \in Conns |-> 0]
    /\ recvCnt' = [c \in Conns |-> 0]
    /\ wpc' = [w \in Workers |-> IF w < Concurrency THEN "tick" ELSE "off"]
    /\ run' = "workers"
    /\ UNCHANGED <<session, subject, faults, pidOk, Concurrency, Payload, chConns, chConnsRef,
                   limitFn, tokens, PsCounter, echoVars, SendRate, SendLimit, batch,
                   tickRate, batchLen, sendTimes, sendBytes, recvTimes, recvBytes,
                   done, pos, inflight>>

\* time.AfterFunc(br.Duration, func() { close(done) })
TimerFire ==
    /\ run = "workers"
    /\ ~done
    /\ done' = TRUE
    /\ UNCHANGED <<sharedVars, echoVars, SendRate, SendLimit, batch, tickRate,
                   batchLen, sendTimes, sendBytes, recvTimes, recvBytes, sendCnt,
                   recvCnt, connTeams, pos, inflight>>

\* case <-done: return
WorkerDone(w) ==
    /\ wpc[w] = "tick"
    /\ done
    /\ wpc' = [wpc EXCEPT ![w] = "exit"]
    /\ UNCHANGED <<run, session, subject, faults, pidOk, Concurrency, Payload, chConns,
                   chConnsRef, limitFn, tokens, PsCounter, sampler, echoVars, rateVars>>

\* The connection the worker's range loop is at.
Cur(w) == connTeams[w][pos[w]]

\* case <-ticker.C: br.doOnce(conns) begins. Ticks are followed while every
\* connection of the team has had fewer than MaxWrites writes.
TickerFire(w) ==
    /\ wpc[w] = "tick"
    /\ \A i \in 1..Len(connTeams[w]) : sendCnt[connTeams[w][i]] < MaxWrites * batch
    /\ IF Len(connTeams[w]) = 0
         THEN UNCHANGED <<wpc, pos>>
         ELSE /\ wpc' = [wpc EXCEPT ![w] = "check"]
              /\ pos' = [pos EXCEPT ![w] = 1]
    /\ UNCHANGED <<run, session, subject, faults, pidOk, Concurrency, Payload, chConns,
                   chConnsRef, limitFn, tokens, PsCounter, sampler, echoVars,
                   SendRate, SendLimit, batch, tickRate, batchLen, sendTimes,
                   sendBytes, recvTimes, recvBytes, sendCnt, recvCnt, connTeams,
                   done, inflight>>

\* The backpressure test of doOnce.
MaySendNoTest(s, r, b) == TRUE
MaySendNoBatch(s, r, b) == s - r < b * 5
MaySend(s, r, b) == s - r + b < b * 5

\* The worker goes on to the next connection of the range, or doOnce returns.
NextPc(w) == IF pos[w] < Len(connTeams[w]) THEN "check" ELSE "tick"
NextPos(w) == IF pos[w] < Len(connTeams[w]) THEN pos[w] + 1 ELSE 0

RateCheck(w) ==
    /\ wpc[w] = "check"
    /\ IF MaySend(sendCnt[Cur(w)], recvCnt[Cur(w)], batch)
         THEN /\ wpc' = [wpc EXCEPT ![w] = IF limitFn = "limiter" THEN "limit" ELSE "write"]
              /\ UNCHANGED pos
         ELSE /\ wpc' = [wpc EXCEPT ![w] = NextPc(w)]
              /\ pos' = [pos EXCEPT ![w] = NextPos(w)]
    /\ UNCHANGED <<run, session, subject, faults, pidOk, Concurrency, Payload, chConns,
                   chConnsRef, limitFn, tokens, PsCounter, sampler, echoVars,
                   SendRate, SendLimit, batch, tickRate, batchLen, sendTimes,
                   sendBytes, recvTimes, recvBytes, sendCnt, recvCnt, connTeams,
                   done, inflight>>

\* br.limitFn(): limiter.WaitN(context.Background(), len(batchBuffer)/Payload).
\* The tokens a call asks the limiter for.
WaitTokens == batchLen \div Payload

\* WaitN returns an error at once when n exceeds the burst (the error is
\* dropped); it returns at once with the tokens when they are there; otherwise
\* it sleeps until time has brought them.
RateLimit(w) ==
    /\ wpc[w] = "limit"
    /\ IF WaitTokens > SendLimit
         THEN wpc' = [wpc EXCEPT ![w] = "write"] /\ UNCHANGED tokens
         ELSE IF tokens >= WaitTokens
                THEN /\ wpc' = [wpc EXCEPT ![w] = "write"]
                     /\ tokens' = tokens - WaitTokens
                ELSE wpc' = [wpc EXCEPT ![w] = "wait"] /\ UNCHANGED tokens
    /\ UNCHANGED <<run, session, subject, faults, pidOk, Concurrency, Payload, chConns,
                   chConnsRef, limitFn, PsCounter, sampler, echoVars, rateVars>>

\* The sleep of WaitN ends when the tokens are there; the context is
\* context.Background(), so nothing else ends it.
RateGranted(w) ==
    /\ wpc[w] = "wait"
    /\ tokens >= WaitTokens
    /\ tokens' = tokens - WaitTokens
    /\ wpc' = [wpc EXCEPT ![w] = "write"]
    /\ UNCHANGED <<run, session, subject, faults, pidOk, Concurrency, Payload, chConns,
                   chConnsRef, limitFn, PsCounter, sampler, echoVars, rateVars>>

\* if err == nil { ... }: whether the write is counted.
CountedAlways(err) == TRUE
CountedNever(err) == FALSE
Counted(err) == ~err

\* int64(br.batch*br.Payload)
BatchBytesNoPayload(b, payload) == b
BatchBytes(b, payload) == b * payload

\* conn.Write(br.batchBuffer): a write that succeeds hands the subject batch
\* messages; on an error nothing is counted.
RateWrite(w) ==
    /\ wpc[w] = "write"
    /\ \E err \in BOOLEAN :
         /\ inflight' = [inflight EXCEPT ![Cur(w)] = IF err THEN @ ELSE @ + batch]
         /\ IF Counted(err)
              THEN /\ wpc' = [wpc EXCEPT ![w] = "count"]
                   /\ UNCHANGED pos
              ELSE /\ wpc' = [wpc EXCEPT ![w] = NextPc(w)]
                   /\ pos' = [pos EXCEPT ![w] = NextPos(w)]
    /\ UNCHANGED <<run, session, subject, faults, pidOk, Concurrency, Payload, chConns,
                   chConnsRef, limitFn, tokens, PsCounter, sampler, echoVars,
                   SendRate, SendLimit, batch, tickRate, batchLen, sendTimes,
                   sendBytes, recvTimes, recvBytes, sendCnt, recvCnt, connTeams,
                   done>>

\* if err == nil: the three atomic adds.
RateCount(w) ==
    /\ wpc[w] = "count"
    /\ sendTimes' = AddInt64(sendTimes, batch)
    /\ sendBytes' = AddInt64(sendBytes, BatchBytes(batch, Payload))
    /\ sendCnt' = [sendCnt EXCEPT ![Cur(w)] = AddInt64(@, batch)]
    /\ wpc' = [wpc EXCEPT ![w] = NextPc(w)]
    /\ pos' = [pos EXCEPT ![w] = NextPos(w)]
    /\ UNCHANGED <<run, session, subject, faults, pidOk, Concurrency, Payload, chConns,
                   chConnsRef, limitFn, tokens, PsCounter, sampler, echoVars,
                   SendRate, SendLimit, batch, tickRate, batchLen, recvTimes,
                   recvBytes, recvCnt, connTeams, done, inflight>>

\* br.onMessage(c, mt, b): b is given by its length and by the number of its
\* bytes that differ from br.wbuffer (bytes.Equal: same length, none differs).
OnMessageTypeOnly(mt, b) == mt = "binary"
OnMessageMatches(mt, b) == mt = "binary" /\ b.len = Payload /\ b.diff = 0

\* The response to one message of a batch: the echo, or (a fault of the
\* subject) the echo with its type, its length or one of its bytes changed.
Echo == [mt |-> "binary", len |-> Payload, diff |-> 0]
GarbledEcho ==
    {[mt |-> "text", len |-> Payload, diff |-> 0],
     [mt |-> "binary", len |-> Payload - 1, diff |-> 0],
     [mt |-> "binary", len |-> Payload + 1, diff |-> 0],
     [mt |-> "binary", len |-> Payload, diff |-> 1]}

\* The transport delivers one response of the subject to the callback.
Deliver(c) ==
    /\ run # "new"
    /\ subject = "echo"
    /\ inflight[c] > 0
    /\ recvCnt[c] < MaxRecv
    /\ inflight' = [inflight EXCEPT ![c] = @ - 1]
    /\ \E m \in {Echo} \cup (IF CanFault THEN GarbledEcho ELSE {}) :
         /\ faults' = IF m = Echo THEN faults ELSE faults + 1
         /\ IF OnMessageMatches(m.mt, m)
              THEN /\ recvCnt' = [recvCnt EXCEPT ![c] = AddInt64(@, 1)]
                   /\ recvTimes' = AddInt64(recvTimes, 1)
                   /\ recvBytes' = AddInt64(recvBytes, m.len)
              ELSE UNCHANGED <<recvCnt, recvTimes, recvBytes>>
    /\ UNCHANGED <<run, session, subject, pidOk, Concurrency, Payload, chConns,
                   chConnsRef, limitFn, tokens, PsCounter, sampler, wpc, echoVars,
                   SendRate, SendLimit, batch, tickRate, batchLen, sendTimes,
                   sendBytes, sendCnt, connTeams, done, pos>>

\* wg.Wait() returns: Run blocks on <-chCounterStart.
RateJoin ==
    /\ run = "workers"
    /\ AllExited
    /\ run' = "wait"
    /\ UNCHANGED <<session, subject, faults, pidOk, Concurrency, Payload, chConns, chConnsRef,
                   limitFn, tokens, PsCounter, sampler, wpc, echoVars, rateVars>>

\* <-chCounterStart; br.PsCounter.Stop(); then the deferred br.clean().
RateFinish ==
    /\ run = "wait"
    /\ CounterStartClosed
    /\ PsCounter' = "stopped"
    /\ chConnsRef' = "nil"
    /\ limitFn' = "noop"
    /\ run' = "returned"
    /\ UNCHANGED <<session, subject, faults, pidOk, Concurrency, Payload, chConns, tokens,
                   sampler, wpc, echoVars, rateVars>>

\* The steps of Run and of its goroutines.
RateWork ==
    \/ RateInit
    \/ RateStart
    \/ TimerFire
    \/ \E w \in Workers : WorkerDone(w)
    \/ \E w \in Workers : TickerFire(w)
    \/ \E w \in Workers : RateCheck(w)
    \/ \E w \in Workers : RateLimit(w)
    \/ \E w \in Workers : RateGranted(w)
    \/ \E w \in Workers : RateWrite(w)
    \/ \E w \in Workers : RateCount(w)
    \/ Refill(SendLimit)
    \/ SamplerStart
    \/ SamplerClose
    \/ RateJoin
    \/ RateFinish

\* ... and those of the transport's goroutine, which calls onMessage.
RateNext ==
    \/ RateWork
    \/ \E c \in Conns : Deliver(c)

SpecRate == RateNew /\ [][RateNext]_vars

\* ------------------------------------------------------------- both modes
\* A session of either kind: Run is the method of the receiver's type.
RunNext ==
    \/ session = "BenchEcho" /\ EchoNext
    \/ session = "BenchRate" /\ RateNext

SpecRun == (EchoNew \/ RateNew) /\ [][RunNext]_vars

\* ============================================================== properties
Holders(c) == {w \in Workers : conn[w] = c}
InPool(c) == {i \in 1..Len(chConns) : chConns[i] = c}
Held == {w \in Workers : conn[w] # NoConn}
PoolBuilt == run \in {"warmup", "bench", "wait", "returned", "fatal"}
InDoOnce(w) == wpc[w] \in {"checkout", "limit", "write", "read"}

\* C1: closed-loop, warmup and measurement: a connection is held by at most
\* one worker at a time, and a connection that is held cannot be obtained by
\* another doOnce call (it is not in the pool).
C1_ExclusiveCheckout ==
    \A c \in Conns :
        /\ Cardinality(Holders(c)) <= 1
        /\ Holders(c) # {} => InPool(c) = {}

\* Two workers each hold a connection in the measurement phase.
C1_Witness ==
    /\ run = "bench"
    /\ \E w1, w2 \in Workers : w1 # w2 /\ conn[w1] # NoConn /\ conn[w2] # NoConn

\* C5: closed-loop, echoing subject and no transport error (faults = 0): when
\* the measurement is over, exactly Total measured calls of doOnce were made,
\* all succeeded: Success = Total and Failed = 0.
C5_AllCallsSucceed ==
    (run \in {"wait", "returned"} /\ faults = 0) =>
        /\ measured = Total
        /\ Success = Total
        /\ Failed = 0

C5_Witness ==
    /\ run = "returned" /\ faults = 0 /\ Concurrency = NumConns
    /\ Success = Total /\ Total = EchoTotal

\* C6: a doOnce call returns success exactly when the write succeeded, the
\* response was read without error, it is binary and its bytes equal the
\* payload paired with the written frame; any failure is counted for that call
\* only, and the worker goes on to the next call.
C6_SuccessIffVerified ==
    [][\A w \in Workers :
         /\ (wpc[w] = "write" /\ wpc'[w] = "read") =>
                (faults' = faults /\ call'[w].err = "none")
         /\ (wpc[w] = "write" /\ wpc'[w] = "record") =>
                (faults' # faults /\ call'[w].err \notin {"nil", "none"})
         /\ (wpc[w] = "read" /\ wpc'[w] = "record") =>
                /\ call'[w].err # "none"
                /\ call'[w].err = "nil" <=>
                      /\ faults' = faults
                      /\ resp[conn[w]].mt = "binary"
                      /\ resp[conn[w]].data = pbuffers(call[w].idx, Payload)
         /\ (wpc[w] = "record" /\ wpc'[w] # "record") =>
                /\ wpc'[w] = "next" /\ run' = run
                /\ run = "bench" =>
                      /\ Success' = Success + (IF call[w].err = "nil" THEN 1 ELSE 0)
                      /\ Failed' = Failed + (IF call[w].err = "nil" THEN 0 ELSE 1)
      ]_vars

\* A measured call has failed on a payload mismatch and is about to be counted.
C6_Witness ==
    /\ run = "bench"
    /\ \E w \in Workers :
         wpc[w] = "record" /\ call[w].err = "respons data is not equal to origin"

\* C7: every checkout is matched by one return on every exit path: the pool
\* and the workers together hold every connection exactly once, and with no
\* doOnce call in progress the pool holds them all.
C7_CheckoutReturnPaired ==
    PoolBuilt =>
        /\ Len(chConns) + Cardinality(Held) = NumConns
        /\ \A c \in Conns : Cardinality(InPool(c)) + Cardinality(Holders(c)) = 1
        /\ (\A w \in Workers : ~InDoOnce(w)) =>
               \A c \in Conns : Cardinality(InPool(c)) = 1

\* After a call that failed, no call is in progress and the pool is full.
C7_Witness ==
    /\ run = "bench" /\ faults > 0 /\ Failed > 0
    /\ \A w \in Workers : ~InDoOnce(w)
    /\ Len(chConns) = NumConns

\* ------------------------------------------------------------- open loop
\* A run against a subject that never responds (the callback is never called),
\* under the scheduling the liveness properties rest on: every task that can
\* take a step takes one, time passes (the timer fires, the limiter refills),
\* and a select with done closed comes to choose done (Go chooses at random
\* among the ready cases).
RateSilentNew == RateNew /\ subject = "silent"

FairSpecRate ==
    /\ RateSilentNew
    /\ [][RateWork]_vars
    /\ WF_vars(RateInit) /\ WF_vars(RateStart) /\ WF_vars(TimerFire)
    /\ WF_vars(SamplerStart) /\ WF_vars(SamplerClose)
    /\ WF_vars(RateJoin) /\ WF_vars(RateFinish)
    /\ WF_vars(Refill(SendLimit))
    /\ \A w \in Workers :
         /\ SF_vars(WorkerDone(w))
         /\ WF_vars(RateCheck(w)) /\ WF_vars(RateLimit(w))
         /\ WF_vars(RateGranted(w))
         /\ WF_vars(RateWrite(w)) /\ WF_vars(RateCount(w))

Outstanding(c) == sendCnt[c] - recvCnt[c]
Writing(w) == wpc[w] \in {"limit", "wait", "write", "count"}
TeamsBuilt == run \in {"workers", "wait", "returned"}

RECURSIVE SumSent(_)
SumSent(n) == IF n = 0 THEN 0 ELSE sendCnt[n] + SumSent(n - 1)

\* C2: open loop: for every connection the outstanding count (sent minus
\* received) never exceeds 5 x batch, whatever the interleaving of the
\* workers' sends and the receive callback.
C2_BackpressureBound == \A c \in Conns : Outstanding(c) <= 5 * batch

\* Responses have arrived and the outstanding count is one below 5 x batch.
C2_Witness ==
    \E c \in Conns : batch = 2 /\ recvCnt[c] > 0 /\ Outstanding(c) = 5 * batch - 1

\* C3: open loop, the subject never responds: the received counts stay 0, a
\* connection's sent count stays at most 5 x batch, no write is issued to a
\* connection whose sent count has reached its plateau of 4 x batch, and from
\* there on the sent count does not change.
C3_SilentPlateau ==
    [][subject = "silent" =>
         \A c \in Conns :
            /\ recvCnt'[c] = 0
            /\ sendCnt'[c] <= 5 * batch'
            /\ (TeamsBuilt /\ sendCnt[c] >= 4 * batch) => sendCnt'[c] = sendCnt[c]
            /\ \A w \in Workers :
                 (wpc[w] = "check" /\ Cur(w) = c /\ Writing(w)') =>
                     sendCnt[c] < 4 * batch
      ]_vars

\* A later tick finds a connection at its plateau.
C3_Witness ==
    /\ subject = "silent" /\ batch = 2
    /\ \E w \in Workers : wpc[w] = "check" /\ sendCnt[Cur(w)] = 4 * batch

SilentNoLimit == subject = "silent" /\ SendLimit = 0

\* C4 as claimed: when Run has returned in a run with a subject that never
\* responds and no send limit, the send counters are greater than 0 and the
\* receive counters are 0.
C4_Original ==
    (run = "returned" /\ SilentNoLimit) =>
        /\ sendTimes > 0 /\ sendBytes > 0
        /\ recvTimes = 0 /\ recvBytes = 0

\* C4, amended: with a subject that never responds and no send limit, once
\* done is closed Run comes to return; then the receive counters are 0 and the
\* send counters are those of the writes that succeeded (the sum of the
\* connections' sent counts, times Payload for the bytes), which is 0 when no
\* write succeeded before the workers left.
C4_TerminatesWithSentOnly ==
    /\ [](SilentNoLimit /\ done => <>(run = "returned"))
    /\ []((run = "returned" /\ SilentNoLimit) =>
             /\ recvTimes = 0 /\ recvBytes = 0
             /\ sendTimes = SumSent(NumConns)
             /\ sendBytes = sendTimes * Payload
             /\ sendTimes >= 0)

\* Run has returned after writes that succeeded and no response.
C4_Witness == run = "returned" /\ SilentNoLimit /\ sendTimes > 0 /\ recvTimes = 0

SendCounters == <<sendTimes, sendBytes, sendCnt>>

\* C8: open loop: a failed write changes no counter, is not retried, and the
\* worker goes on to the next connection of its team; the send counters grow
\* (by batch, batch x Payload and batch) only in the step that follows a write
\* that returned no error.
C8_FailedWriteCountsNothing ==
    [][/\ \A w \in Workers :
            (wpc[w] = "write" /\ wpc'[w] # "write") =>
                /\ SendCounters' = SendCounters
                /\ IF inflight'[Cur(w)] = inflight[Cur(w)]
                     THEN wpc'[w] = NextPc(w) /\ pos'[w] = NextPos(w)
                     ELSE wpc'[w] = "count" /\ pos'[w] = pos[w]
       /\ SendCounters' # SendCounters =>
            \E w \in Workers :
                /\ wpc[w] = "count"
                /\ sendTimes' = sendTimes + batch
                /\ sendBytes' = sendBytes + batch * Payload
                /\ sendCnt' = [sendCnt EXCEPT ![Cur(w)] = @ + batch]
      ]_vars

\* The write to the first connection of a team failed: nothing was sent or
\* counted for it, and the worker is at the second connection.
C8_Witness ==
    \E w \in Workers :
        /\ wpc[w] = "check" /\ pos[w] = 2
        /\ sendCnt[connTeams[w][1]] = 0 /\ inflight[connTeams[w][1]] = 0
        /\ recvCnt[connTeams[w][1]] = 0

\* C9: open loop: no step lowers a counter of the session or of a connection.
C9_CountersMonotone ==
    [][/\ sendTimes' >= sendTimes /\ sendBytes' >= sendBytes
       /\ recvTimes' >= recvTimes /\ recvBytes' >= recvBytes
       /\ \A c \in Conns : sendCnt'[c] >= sendCnt[c] /\ recvCnt'[c] >= recvCnt[c]
      ]_vars

\* Run has returned (its cleanup has run) with sends and receives counted.
C9_Witness == run = "returned" /\ sendTimes > 0 /\ recvTimes > 0

TeamSet(w) == {connTeams[w][i] : i \in 1..Len(connTeams[w])}

\* C10: open loop: from the start of the workers on there are Concurrency
\* teams, pairwise disjoint and covering the connections, they never change,
\* each worker writes only to its own team, and no two workers are at the
\* same connection.
C10_TeamsPartition ==
    /\ [](TeamsBuilt =>
            /\ DOMAIN connTeams = 0..(Concurrency - 1)
            /\ \A c \in Conns :
                 Cardinality({w \in DOMAIN connTeams : c \in TeamSet(w)}) = 1
            /\ \A w \in DOMAIN connTeams :
                 Cardinality(TeamSet(w)) = Len(connTeams[w])
            /\ \A w \in Workers : wpc[w] # "off" <=> w < Concurrency
            /\ \A w1, w2 \in Workers :
                 (w1 # w2 /\ pos[w1] > 0 /\ pos[w2] > 0) => Cur(w1) # Cur(w2))
    /\ [][TeamsBuilt => connTeams' = connTeams]_vars

\* Two workers write at the same time, each to a connection of its team.
C10_Witness ==
    /\ run = "workers" /\ Concurrency = 2
    /\ wpc[0] = "write" /\ wpc[1] = "write"

\* C11 as claimed: with a send limit, once done is closed a limiter wait that
\* is pending is cancelled: the worker sleeping in it is not granted tokens,
\* to go on to its write, after done.
C11_Original ==
    [][\A w \in Workers :
          (SendLimit > 0 /\ done /\ wpc[w] = "wait" /\ wpc'[w] = "write") =>
              tokens' = tokens
      ]_vars

\* Measurement traffic has begun: a measured closed-loop call has been taken,
\* or an open-loop worker has followed a tick.
InTick(w) == wpc[w] \in {"check", "limit", "wait", "write", "count"}
Measuring ==
    \/ session = "BenchEcho" /\ measured > 0
    \/ session = "BenchRate" /\ (sendTimes > 0 \/ \E w \in Workers : InTick(w))

\* The sampler has been started and its goroutine has slept one interval.
IntervalElapsed == CounterStartClosed

\* C12 as claimed: in both modes measurement traffic begins only after the
\* sampler has been started and one sampling interval has elapsed.
C12_Original == Measuring => IntervalElapsed

RecvCounters == <<recvTimes, recvBytes, recvCnt>>

\* C13 as claimed: open loop: once Run has returned, no step (a response the
\* transport delivers later) changes the session's receive count or receive
\* bytes or a connection's received count.
C13_Original == [][run = "returned" => RecvCounters' = RecvCounters]_vars

\* No write has been issued to any connection, and no worker exists.
NoTraffic ==
    /\ \A c \in Conns : wire[c] = <<>> /\ resp[c] = NoMsg /\ inflight[c] = 0 /\ sendCnt[c] = 0
    /\ \A w \in Workers : wpc[w] = "off" /\ conn[w] = NoConn
    /\ index = 0 /\ measured = 0 /\ sendTimes = 0 /\ sendBytes = 0

\* C14: both modes: in a run whose process-id resolution fails, init ends in
\* the fatal error: Run goes no further, no worker is started and no write
\* is issued to any connection.
C14_PidFailureNoTraffic == ~pidOk => (run \in {"new", "fatal"} /\ NoTraffic)

\* init has ended in the fatal error of the failed resolution, after the pool
\* was filled.
C14_Witness == ~pidOk /\ run = "fatal" /\ chConnsRef = "chan"

WorkersStarted == \E w \in Workers : wpc[w] # "off"

\* C15: open loop: when batch construction gives a tick rate <= 0 or an empty
\* batch buffer, init ends in the fatal error, no worker is started and no
\* write is issued; every run that has started its workers has a tick rate
\* >= 1 and a batch buffer that is not empty.
C15_WrongBatchIsFatal ==
    /\ (run # "new" /\ (tickRate <= 0 \/ batchLen = 0)) =>
           (run = "fatal" /\ NoTraffic /\ chConnsRef = "nil")
    /\ (WorkersStarted \/ TeamsBuilt) => (tickRate >= 1 /\ batchLen > 0 /\ batch >= 1)

\* init has ended in the fatal error of a batch that could not be built.
C15_Witness == run = "fatal" /\ tickRate = 0 /\ batchLen = 0 /\ pidOk

\* The callback has handled a response on connection c in this step.
Delivered(c) == inflight'[c] = inflight[c] - 1

\* C16: open loop: the receive callback counts a message exactly when it is
\* binary and byte-equal to the send payload: then the connection's received
\* count and the session's receive count grow by 1 and the receive bytes by
\* the message's length; for a message of another type, another length or
\* with a differing byte no counter changes; nothing else changes a receive
\* counter.
C16_CountsExactMatchOnly ==
    [][/\ \A c \in Conns :
            Delivered(c) =>
               IF faults' = faults
                 THEN /\ recvCnt' = [recvCnt EXCEPT ![c] = @ + 1]
                      /\ recvTimes' = recvTimes + 1
                      /\ recvBytes' = recvBytes + Payload
                      /\ SendCounters' = SendCounters
                 ELSE RecvCounters' = RecvCounters /\ SendCounters' = SendCounters
       /\ RecvCounters' # RecvCounters =>
            \E c \in Conns : Delivered(c) /\ faults' = faults
      ]_vars

\* A response that does not match has been handled, and one that matches has
\* been counted.
C16_Witness == faults = 1 /\ recvTimes = 1 /\ \E c \in Conns : recvCnt[c] = 1 /\ sendCnt[c] > 0

\* C17 as claimed: open loop with SendLimit > 0: a worker goes from its
\* limitFn call to the write only with tokens the limiter has granted it.
C17_Original ==
    [][\A w \in Workers :
          (SendLimit > 0 /\ wpc[w] \in {"limit", "wait"} /\ wpc'[w] = "write") =>
              (tokens >= WaitTokens /\ tokens' = tokens - WaitTokens)
      ]_vars

\* The workers that have written to c and have not yet added to its counters.
Counting(c) == {w \in Workers : wpc[w] = "count" /\ Cur(w) = c}
CountingAny == {w \in Workers : wpc[w] = "count"}

\* C18 as claimed: open loop, echoing subject: a connection's received count
\* is at most its sent count and the session's receive count at most its send
\* count, in every reachable state.
C18_Original ==
    subject = "echo" =>
        /\ \A c \in Conns : recvCnt[c] <= sendCnt[c]
        /\ recvTimes <= sendTimes

\* C18, amended: a connection's received count exceeds its sent count by at
\* most batch, and only while a worker is between its successful write to
\* that connection and the adds that count it; the session's receive count
\* exceeds its send count by at most batch for each such worker. Once the
\* workers have been joined, received <= sent.
C18_RecvWithinWritten ==
    /\ \A c \in Conns :
         /\ Cardinality(Counting(c)) <= 1
         /\ recvCnt[c] <= sendCnt[c] + batch * Cardinality(Counting(c))
    /\ recvTimes <= sendTimes + batch * Cardinality(CountingAny)
    /\ run \in {"wait", "returned"} => CountingAny = {}

\* The echo of a batch has been counted before the write that sent it.
C18_Witness ==
    \E c \in Conns : recvCnt[c] > sendCnt[c] /\ Counting(c) # {} /\ recvTimes > sendTimes

\* C19: closed loop: after init Concurrency is at most the number of
\* connections, and the pool never holds more than its capacity, the number of
\* connections; hence a worker at its checkout always finds a connection in
\* the pool, and a worker that holds a connection always finds room to
\* return it: neither the checkout nor the return blocks, in warmup and in
\* measurement.
C19_PoolNeverBlocks ==
    (session = "BenchEcho" /\ PoolBuilt) =>
        /\ Concurrency <= NumConns
        /\ Len(chConns) <= NumConns
        /\ \A w \in Workers :
             /\ wpc[w] = "checkout" => Len(chConns) > 0
             /\ conn[w] # NoConn => Len(chConns) < NumConns

\* Every worker is in doOnce: one holds a connection, another is at its
\* checkout with the last connection in the pool.
C19_Witness ==
    /\ run = "bench" /\ Concurrency = NumConns
    /\ \E w1, w2 \in Workers :
         /\ wpc[w1] = "checkout" /\ conn[w2] # NoConn
         /\ Len(chConns) = 1

\* The step is a call of PsCounter.Stop.
StopCalled == PsCounter' = "stopped" /\ PsCounter # "stopped"

\* All measurement work has finished: the open-loop workers have been joined,
\* respectively every measured closed-loop call has returned and been counted.
MeasurementOver ==
    /\ AllExited
    /\ \A w \in Workers : conn[w] = NoConn
    /\ session = "BenchEcho" => (measured = Total /\ Success + Failed = Total)

\* C20: both modes: Stop is called only after Start has been called and its
\* goroutine has slept one interval, and only after all measurement work has
\* finished; it is called once, as the last step of Run, and the sampler is
\* not started again.
C20_StopAfterStartOnce ==
    /\ [][StopCalled =>
            /\ PsCounter = "started" /\ sampler = "closed"
            /\ MeasurementOver
            /\ run = "wait" /\ run' = "returned"
         ]_vars
    /\ [][PsCounter = "stopped" => (PsCounter' = "stopped" /\ run' = run)]_vars
    /\ [](run = "returned" <=> PsCounter = "stopped")

\* Run has returned with the sampler stopped.
C20_Witness == run = "returned" /\ PsCounter = "stopped" /\ sampler = "closed"

====
